---- MODULE Spec2Model ----
(***************************************************************************)
(* A model of the story-text-designer editor: the InstagramEditor         *)
(* component (projects, pages, save, export), the Canvas component (the    *)
(* fabric canvas instance and its three effects) and the Toolbar (the      *)
(* operations on the live graph).                                          *)
(*                                                                         *)
(* A React event handler, the re-renders it causes and the effects those   *)
(* renders run are one step: React flushes them before it delivers the     *)
(* next event.  The asynchronous completions (image decode, loadFromJSON)  *)
(* are steps of their own.  A handler or an effect reads the values of the *)
(* render that created it (the record r below) and writes state updates    *)
(* and mutable objects into the accumulating record n.                     *)
(*                                                                         *)
(* Lengths are in quarters of a pixel, so that 337.5 px is 1350.          *)
(* Page indices are 0-based as in the code; sequences are 1-based.         *)
(***************************************************************************)
EXTENDS Integers, Sequences, FiniteSets, TLC

\* ------------------------------------------------------------------ bounds
MaxProjects == 2
MaxPages == 2
MaxObjects == 4
MaxCanvases == 2
MaxPending == 2
MaxClock == 3

\* ------------------------------------------------------- program constants
PostWidth == 1080
PostHeight == 1080
StoryWidth == 1080
StoryHeight == 1920
maxDisplayHeight == 600
PlaceholderFontSize == 32
NewTextFontSize == 32

Formats == {"post", "story"}
AllThemes == {"instagram", "minimal", "dark", "ocean", "sunset", "forest",
              "neon", "pastel", "royal"}
\* the themes the theme selector is exercised with
Themes == {"instagram", "minimal"}
\* natural sizes (width, height) in pixels of the images offered to addImage
ImageSizes == {<<400, 100>>, <<100, 400>>}

Null == [null |-> TRUE]

Min(a, b) == IF a < b THEN a ELSE b
Max(a, b) == IF a > b THEN a ELSE b

\* Only({e(x) : x \in {v}}) is e(v), with v evaluated once: const x = v; e(x)
Only(S) == CHOOSE x \in S : TRUE

VARIABLES
    projects,          \* useLocalStorage("instagram-projects")
    currentProject,    \* Project or Null
    currentPageIndex,
    canvasFormat,
    activeTheme,
    fabricCanvas,      \* InstagramEditor's canvas handle: 0 (null) or an instance
    isInitialized,     \* Canvas component state
    fabricCanvasRef,   \* Canvas component ref: 0 (null) or an instance
    canvases,          \* every fabric canvas instance constructed so far
    pendingImages,     \* FabricImage.fromURL promises not yet settled
    pendingLoads,      \* loadFromJSON promises not yet settled
    now,               \* Date.now()
    toasts,            \* notifications issued by the last step
    lastExport,        \* the bitmap size of the last toDataURL download
    lastOp,            \* the event the last step delivered
    mounted,           \* the InstagramEditor component is mounted
    activeObject,      \* Toolbar state: the selection it last heard of, or Null
    textContent,       \* Toolbar state: the value of the text-content field
    interval,          \* the render whose saveProject the autosave interval calls
    pendingEffects     \* a render is committed and its effects have not run: the
                       \* render before it and what the handler set, else Null

vars == <<projects, currentProject, currentPageIndex, canvasFormat, activeTheme,
          fabricCanvas, isInitialized, fabricCanvasRef, canvases, pendingImages,
          pendingLoads, now, toasts, lastExport, lastOp, mounted, activeObject,
          textContent, interval, pendingEffects>>

\* --------------------------------------------------------------- geometry
canvasWidth(format) == IF format = "post" THEN PostWidth ELSE StoryWidth
canvasHeight(format) == IF format = "post" THEN PostHeight ELSE StoryHeight

\* initializeCanvas: displayHeight = min(600, height), in quarter pixels
displayHeight(format) == Min(maxDisplayHeight, canvasHeight(format)) * 4
\* displayWidth = displayHeight * (width / height)
displayWidth(format) == (displayHeight(format) * canvasWidth(format)) \div canvasHeight(format)

\* ----------------------------------------------------------------- themes
getThemeBackground(theme) ==
    CASE theme = "minimal" -> "#ffffff"
      [] theme = "dark" -> "#1a1a1a"
      [] theme = "instagram" -> "#833ab4"
      [] theme = "ocean" -> "#2E3192"
      [] theme = "sunset" -> "#ff7e5f"
      [] theme = "forest" -> "#134E5E"
      [] theme = "neon" -> "#00f260"
      [] theme = "pastel" -> "#a1c4fd"
      [] theme = "royal" -> "#141E30"
      [] OTHER -> "#ffffff"

getTextColor(theme) ==
    IF theme \in {"minimal", "pastel"} THEN "#333333" ELSE "#ffffff"

\* the fill addText gives a new Textbox
addTextFill(theme) == IF theme = "minimal" THEN "#333333" ELSE "#ffffff"

\* -------------------------------------------------------- fabric: objects
\* A fabric object.  oid stands for the JavaScript object identity within
\* its canvas; it is no field of the object and toJSON does not emit it.
Textbox(text, left, top, fontSize, fill, width) ==
    [oid |-> 0, type |-> "textbox", text |-> text, left |-> left, top |-> top,
     fontSize |-> fontSize, fill |-> fill, textAlign |-> "center",
     width |-> width, height |-> 0, scaleN |-> 1, scaleD |-> 1]

FabricImage(size) ==
    [oid |-> 0, type |-> "image", text |-> "", left |-> 0, top |-> 0,
     fontSize |-> 0, fill |-> "", textAlign |-> "",
     width |-> size[1] * 4, height |-> size[2] * 4, scaleN |-> 1, scaleD |-> 1]

Oids(objs) == {objs[i].oid : i \in 1..Len(objs)}

\* the identity a newly constructed object gets: one no object of the canvas has
FreshOid(objs) == CHOOSE k \in 1..(Len(objs) + 1) :
                      /\ k \notin Oids(objs)
                      /\ \A j \in 1..(k - 1) : j \in Oids(objs)

IndexOf(objs, oid) ==
    IF oid \in Oids(objs) THEN CHOOSE i \in 1..Len(objs) : objs[i].oid = oid ELSE 0

RemoveAt(seq, i) == SubSeq(seq, 1, i - 1) \o SubSeq(seq, i + 1, Len(seq))
InsertAt(seq, i, x) == SubSeq(seq, 1, i - 1) \o <<x>> \o SubSeq(seq, i, Len(seq))

\* ------------------------------------------------------- fabric: a canvas
\* new FabricCanvas(el, {width, height, backgroundColor})
FabricCanvas(width, height, backgroundColor) ==
    [disposed |-> FALSE, width |-> width, height |-> height,
     backgroundColor |-> backgroundColor, objects |-> <<>>, active |-> <<>>]

\* canvas.add(obj): append on top of the paint order
addObject(objs, obj) == Append(objs, [obj EXCEPT !.oid = FreshOid(objs)])
canvasAdd(cv, obj) == [cv EXCEPT !.objects = addObject(@, obj)]

\* the object canvas.add has just appended
lastAdded(cv) == cv.objects[Len(cv.objects)].oid

\* canvas.setActiveObject(obj)
canvasSetActiveObject(cv, oid) == [cv EXCEPT !.active = <<oid>>]

\* canvas.clear(): removes every object, the selection and the background
canvasClear(cv) == [cv EXCEPT !.objects = <<>>, !.active = <<>>, !.backgroundColor = ""]

\* a dispose that tears the instance down again on every call
canvasDisposeUnguarded(cv) ==
    [cv EXCEPT !.disposed = TRUE, !.objects = <<>>, !.active = <<>>]

\* canvas.dispose(): the instance is destroyed and its object list emptied;
\* a second dispose changes nothing
canvasDispose(cv) ==
    IF cv.disposed THEN cv
    ELSE [cv EXCEPT !.disposed = TRUE, !.objects = <<>>, !.active = <<>>]

\* a moveObjectTo that exchanges the object with the one at index
moveObjectToSwap(objs, oid, index) ==
    LET i == IndexOf(objs, oid)
    IN IF i = 0 \/ i = index + 1 THEN objs
       ELSE [objs EXCEPT ![i] = objs[index + 1], ![index + 1] = objs[i]]

\* canvas.moveObjectTo(obj, index): index is 0-based; nothing happens when the
\* object is at that index already; else remove it and splice it in at index
\* (splice inserts at the end when index is past it)
moveObjectTo(objs, oid, index) ==
    LET i == IndexOf(objs, oid)
    IN IF i = 0 \/ i = index + 1 THEN objs
       ELSE InsertAt(RemoveAt(objs, i), Min(index + 1, Len(objs)), objs[i])

\* canvas.toJSON(): the objects in paint order, without their identity,
\* and the background.  toObject writes the numbers with four fraction
\* digits (toFixed); of the numbers of this model only a scale can have
\* more.  A scale that four digits hold stays as it is; the others go to
\* the nearest ten-thousandth, and the tie of the modelled sizes, 0.50625,
\* is a double just below the tie and goes down.
FractionUnits == 10000
toFixed(obj) ==
    IF (obj.scaleN * FractionUnits) % obj.scaleD = 0 THEN obj
    ELSE [obj EXCEPT !.scaleN = (2 * obj.scaleN * FractionUnits + obj.scaleD - 1)
                                    \div (2 * obj.scaleD),
                     !.scaleD = FractionUnits]
StripOid(obj) == [obj EXCEPT !.oid = 0]
toJSON(cv) ==
    [objects |-> [i \in 1..Len(cv.objects) |-> toFixed(StripOid(cv.objects[i]))],
     background |-> cv.backgroundColor]

\* canvas.toDataURL({multiplier}): the size in whole pixels of the bitmap,
\* multiplier given in tenths
toDataURL(cv, multiplier10) ==
    [w |-> (cv.width * multiplier10) \div 40, h |-> (cv.height * multiplier10) \div 40]

\* the settled loadFromJSON promise: clear, add the revived objects (new
\* objects, in the persisted order), set the persisted background
RECURSIVE addAll(_, _)
addAll(cv, objs) ==
    IF objs = <<>> THEN cv ELSE addAll(canvasAdd(cv, Head(objs)), Tail(objs))

loadFromJSONDone(cv, json) ==
    [addAll(canvasClear(cv), json.objects) EXCEPT !.backgroundColor = json.background]

\* the rejected loadFromJSON promise: nothing is revived, the canvas is as
\* the calls before it left it
loadFromJSONFailed(cv, json) == cv

\* ------------------------------------------------------ the state record
\* The state as one record: what a render reads (r) and what handlers and
\* effects write (n).  projSet and touch say that setProjects was called and
\* that the current page is a new object, which the dependency lists of the
\* effects compare by identity.
State ==
    [projects |-> projects, currentProject |-> currentProject,
     currentPageIndex |-> currentPageIndex, canvasFormat |-> canvasFormat,
     activeTheme |-> activeTheme, fabricCanvas |-> fabricCanvas,
     isInitialized |-> isInitialized, fabricCanvasRef |-> fabricCanvasRef,
     canvases |-> canvases, pendingImages |-> pendingImages,
     pendingLoads |-> pendingLoads, now |-> now, toasts |-> {},
     lastExport |-> lastExport, projSet |-> FALSE, touch |-> FALSE, mounted |-> mounted,
     activeObject |-> activeObject, textContent |-> textContent,
     listening |-> IF mounted THEN fabricCanvas ELSE 0, interval |-> interval]

\* const currentPage = currentProject?.pages?.[currentPageIndex] || null
pageOf(project, index) ==
    IF project = Null THEN Null
    ELSE IF index >= 0 /\ index < Len(project.pages) THEN project.pages[index + 1]
    ELSE Null

currentPageOf(s) == pageOf(s.currentProject, s.currentPageIndex)

toast(n, msg) == [n EXCEPT !.toasts = @ \cup {msg}]

\* canvas.getActiveObject() of canvas c: the selected object, or the
\* ActiveSelection of several, or Null
getActiveObject(cv, c) ==
    IF cv.active = <<>> THEN Null
    ELSE [canvas |-> c, oids |-> cv.active,
          type |-> IF Len(cv.active) = 1
                   THEN cv.objects[IndexOf(cv.objects, cv.active[1])].type
                   ELSE "activeSelection"]

\* the Toolbar's handleSelection, on selection:created and selection:updated
handleSelection(n, c) ==
    LET cv == n.canvases[c]
        active == getActiveObject(cv, c)
    IN [n EXCEPT !.activeObject = active,
                 !.textContent = IF active # Null /\ active.type = "textbox"
                                 THEN cv.objects[IndexOf(cv.objects, cv.active[1])].text
                                 ELSE @]

\* the Toolbar's handleClearSelection, on selection:cleared
handleClearSelection(n) == [n EXCEPT !.activeObject = Null]

\* The selection events of a call that changed the selection of canvas c
\* from before: they reach the Toolbar while its effect has its handlers
\* on that canvas (listening), so state m is what the call left.
selectionEvents(m, c, before) ==
    Only({IF n.listening # c \/ n.canvases[c].active = before THEN n
          ELSE IF n.canvases[c].active = <<>> THEN handleClearSelection(n)
          ELSE handleSelection(n, c) :
             n \in {m}})

\* ------------------------------------------------------------ Canvas.tsx
\* loadCanvasData(canvas), with the page and theme of render r
loadCanvasData(r, n, c) ==
    LET page == currentPageOf(r)
        cv == n.canvases[c]
    IN IF page # Null /\ page.canvasData # Null
       THEN selectionEvents(
                [n EXCEPT !.canvases[c] = canvasClear(cv),
                          !.pendingLoads = Append(@, [canvas |-> c, json |-> page.canvasData])],
                c, cv.active)
       ELSE LET welcomeText == Textbox("Tap to edit text", cv.width \div 2, cv.height \div 2,
                                       PlaceholderFontSize, getTextColor(r.activeTheme),
                                       (cv.width * 8) \div 10)
                added == canvasAdd(cv, welcomeText)
            IN selectionEvents(
                   [n EXCEPT !.canvases[c] = canvasSetActiveObject(added, lastAdded(added))],
                   c, cv.active)

\* the first lines of initializeCanvas: clean up an existing canvas
disposeExisting(n) ==
    IF n.fabricCanvasRef # 0
    THEN [n EXCEPT !.canvases[n.fabricCanvasRef] = canvasDispose(@), !.fabricCanvasRef = 0]
    ELSE n

\* initializeCanvas(), with the props of render r
constructCanvas(r, n1) ==
    LET c == Len(n1.canvases) + 1
        canvas == FabricCanvas(displayWidth(r.canvasFormat), displayHeight(r.canvasFormat),
                               getThemeBackground(r.activeTheme))
    IN Only({toast([loadCanvasData(r, n2, c) EXCEPT !.fabricCanvas = c],
                   r.canvasFormat \o " canvas ready!") :
                n2 \in {[n1 EXCEPT !.canvases = Append(@, canvas), !.fabricCanvasRef = c,
                                   !.isInitialized = TRUE]}})

initializeCanvas(r, n) == Only({constructCanvas(r, n1) : n1 \in {disposeExisting(n)}})

\* a cleanup that drops the reference and leaves the instance alive
initCleanupNoDispose(n) ==
    IF n.fabricCanvasRef # 0
    THEN [n EXCEPT !.fabricCanvasRef = 0, !.isInitialized = FALSE]
    ELSE n

\* the cleanup of the init effect
initCleanup(n) ==
    IF n.fabricCanvasRef # 0
    THEN [n EXCEPT !.canvases[n.fabricCanvasRef] = canvasDispose(@), !.fabricCanvasRef = 0,
                   !.isInitialized = FALSE]
    ELSE n

\* updateCanvasBackground(), with the theme of render r
updateCanvasBackground(r, n) ==
    IF n.fabricCanvasRef = 0 THEN n
    ELSE LET cv == n.canvases[n.fabricCanvasRef]
             recolor(obj) == IF obj.type = "textbox"
                             THEN [obj EXCEPT !.fill = getTextColor(r.activeTheme)]
                             ELSE obj
         IN [n EXCEPT !.canvases[n.fabricCanvasRef] =
                 [cv EXCEPT !.backgroundColor = getThemeBackground(r.activeTheme),
                            !.objects = [i \in 1..Len(cv.objects) |-> recolor(cv.objects[i])]]]

\* the page-change effect, deps [page?.id, isInitialized]
pageEffect(r, n) ==
    IF n.fabricCanvasRef # 0 /\ currentPageOf(r) # Null /\ r.isInitialized
    THEN loadCanvasData(r, n, n.fabricCanvasRef)
    ELSE n

\* the theme effect, deps [theme, isInitialized]
themeEffect(r, n) ==
    IF n.fabricCanvasRef # 0 /\ r.isInitialized THEN updateCanvasBackground(r, n) ELSE n

\* The effects of the Canvas component in the commit of render r, p being
\* the render committed before: unmount, mount or update.  Cleanups of the
\* effects whose dependencies changed run before their bodies.
canvasEffects(p, r, n) ==
    LET was == currentPageOf(p) # Null
        is == currentPageOf(r) # Null
        dInit == ~was \/ p.canvasFormat # r.canvasFormat
        dPage == ~was \/ currentPageOf(p).id # currentPageOf(r).id
                      \/ p.isInitialized # r.isInitialized
        dTheme == ~was \/ p.activeTheme # r.activeTheme
                       \/ p.isInitialized # r.isInitialized
    IN IF ~is THEN (IF was THEN initCleanup(n) ELSE n)
       ELSE Only({IF dTheme THEN themeEffect(r, b) ELSE b :
                     b \in {IF dPage THEN pageEffect(r, a) ELSE a :
                               a \in {IF ~dInit THEN n
                                      ELSE IF was
                                      THEN Only({initializeCanvas(r, c) : c \in {initCleanup(n)}})
                                      ELSE initializeCanvas(r, n)}}})

\* --------------------------------------------------- InstagramEditor.tsx
\* projects.map(p => p.id === id ? updatedProject : p)
replaceProject(projs, id, updatedProject) ==
    [i \in 1..Len(projs) |-> IF projs[i].id = id THEN updatedProject ELSE projs[i]]

\* updatedPages[index] = page
replacePage(pages, index, page) == [pages EXCEPT ![index + 1] = page]

\* setProjects(...map...); setCurrentProject(updatedProject)
storeProject(r, n, updatedProject) ==
    [n EXCEPT !.projects = replaceProject(r.projects, r.currentProject.id, updatedProject),
              !.currentProject = updatedProject, !.projSet = TRUE]

\* a createNewProject that leaves the page index where it is
createNewProjectKeepIndex(r, n) ==
    LET newProject ==
            [id |-> n.now, name |-> Len(r.projects) + 1, format |-> r.canvasFormat,
             theme |-> r.activeTheme, createdAt |-> n.now, updatedAt |-> n.now,
             pages |-> <<[id |-> n.now, format |-> r.canvasFormat, theme |-> r.activeTheme,
                          canvasData |-> Null, thumbnail |-> Null, name |-> 1]>>]
    IN toast([n EXCEPT !.projects = <<newProject>> \o r.projects,
                       !.currentProject = newProject,
                       !.projSet = TRUE, !.touch = TRUE],
             "New project created!")

createNewProject(r, n) ==
    LET newProject ==
            [id |-> n.now, name |-> Len(r.projects) + 1, format |-> r.canvasFormat,
             theme |-> r.activeTheme, createdAt |-> n.now, updatedAt |-> n.now,
             pages |-> <<[id |-> n.now, format |-> r.canvasFormat, theme |-> r.activeTheme,
                          canvasData |-> Null, thumbnail |-> Null, name |-> 1]>>]
    IN toast([n EXCEPT !.projects = <<newProject>> \o r.projects,
                       !.currentProject = newProject, !.currentPageIndex = 0,
                       !.projSet = TRUE, !.touch = TRUE],
             "New project created!")

\* deleteProject(projectId)
deleteProject(r, n, projectId) ==
    LET keep(p) == p.id # projectId
        updatedProjects == SelectSeq(r.projects, keep)
        cleared == IF r.currentProject # Null /\ r.currentProject.id = projectId
                   THEN [n EXCEPT !.currentProject = IF updatedProjects = <<>> THEN Null
                                                     ELSE updatedProjects[1],
                                  !.currentPageIndex = 0, !.touch = TRUE]
                   ELSE n
    IN toast([cleared EXCEPT !.projects = updatedProjects, !.projSet = TRUE],
             "Project deleted")

\* the cleanup of the editor's effect with deps []: its fabricCanvas is the
\* one of the render r0 that created it
editorUnmountCleanup(r0, n) ==
    IF r0.fabricCanvas # 0
    THEN [n EXCEPT !.canvases[r0.fabricCanvas] = canvasDispose(@)]
    ELSE n

\* an addNewPage that puts the new page in front of the others
addNewPageInFront(r, n) ==
    IF r.currentProject = Null THEN n
    ELSE LET newPage == [id |-> n.now, format |-> r.canvasFormat, theme |-> r.activeTheme,
                         canvasData |-> Null, thumbnail |-> Null,
                         name |-> Len(r.currentProject.pages) + 1]
             updatedProject == [r.currentProject EXCEPT !.pages = <<newPage>> \o @,
                                                        !.updatedAt = n.now]
         IN toast([storeProject(r, n, updatedProject) EXCEPT
                       !.currentPageIndex = 0, !.touch = TRUE],
                  "New page added!")

addNewPage(r, n) ==
    IF r.currentProject = Null THEN n
    ELSE LET newPage == [id |-> n.now, format |-> r.canvasFormat, theme |-> r.activeTheme,
                         canvasData |-> Null, thumbnail |-> Null,
                         name |-> Len(r.currentProject.pages) + 1]
             updatedProject == [r.currentProject EXCEPT !.pages = Append(@, newPage),
                                                        !.updatedAt = n.now]
         IN toast([storeProject(r, n, updatedProject) EXCEPT
                       !.currentPageIndex = Len(updatedProject.pages) - 1, !.touch = TRUE],
                  "New page added!")

\* a deleteCurrentPage without the guard on the last page
deleteCurrentPageUnguarded(r, n) ==
    IF r.currentProject = Null THEN n
    ELSE LET pages == r.currentProject.pages
             updatedPages == IF r.currentPageIndex + 1 \in 1..Len(pages)
                             THEN RemoveAt(pages, r.currentPageIndex + 1)
                             ELSE pages
             updatedProject == [r.currentProject EXCEPT !.pages = updatedPages,
                                                        !.updatedAt = n.now]
             newPageIndex == Min(r.currentPageIndex, Len(updatedPages) - 1)
         IN toast([storeProject(r, n, updatedProject) EXCEPT
                       !.currentPageIndex = newPageIndex, !.touch = TRUE],
                  "Page deleted")

\* a deleteCurrentPage that leaves the page index where it is
deleteCurrentPageKeepIndex(r, n) ==
    IF r.currentProject = Null \/ Len(r.currentProject.pages) <= 1 THEN n
    ELSE LET pages == r.currentProject.pages
             updatedPages == IF r.currentPageIndex + 1 \in 1..Len(pages)
                             THEN RemoveAt(pages, r.currentPageIndex + 1)
                             ELSE pages
             updatedProject == [r.currentProject EXCEPT !.pages = updatedPages,
                                                        !.updatedAt = n.now]
         IN toast([storeProject(r, n, updatedProject) EXCEPT !.touch = TRUE],
                  "Page deleted")

deleteCurrentPage(r, n) ==
    IF r.currentProject = Null \/ Len(r.currentProject.pages) <= 1 THEN n
    ELSE LET pages == r.currentProject.pages
             updatedPages == IF r.currentPageIndex + 1 \in 1..Len(pages)
                             THEN RemoveAt(pages, r.currentPageIndex + 1)
                             ELSE pages
             updatedProject == [r.currentProject EXCEPT !.pages = updatedPages,
                                                        !.updatedAt = n.now]
             newPageIndex == Min(r.currentPageIndex, Len(updatedPages) - 1)
         IN toast([storeProject(r, n, updatedProject) EXCEPT
                       !.currentPageIndex = newPageIndex, !.touch = TRUE],
                  "Page deleted")

\* a saveProject that stores the canvas in the first page
saveProjectFirstPage(r, n) ==
    IF r.currentProject = Null \/ r.fabricCanvas = 0 \/ currentPageOf(r) = Null THEN n
    ELSE LET cv == n.canvases[r.fabricCanvas]
             page == [pageOf(r.currentProject, 0) EXCEPT !.canvasData = toJSON(cv),
                                                         !.thumbnail = toDataURL(cv, 2)]
             updatedProject ==
                 [r.currentProject EXCEPT
                      !.pages = replacePage(@, 0, page),
                      !.updatedAt = n.now]
         IN toast([storeProject(r, n, updatedProject) EXCEPT !.touch = TRUE],
                  "Project saved!")

saveProject(r, n) ==
    IF r.currentProject = Null \/ r.fabricCanvas = 0 \/ currentPageOf(r) = Null THEN n
    ELSE LET cv == n.canvases[r.fabricCanvas]
             page == [currentPageOf(r) EXCEPT !.canvasData = toJSON(cv),
                                              !.thumbnail = toDataURL(cv, 2)]
             updatedProject ==
                 [r.currentProject EXCEPT
                      !.pages = replacePage(@, r.currentPageIndex, page),
                      !.updatedAt = n.now]
         IN toast([storeProject(r, n, updatedProject) EXCEPT !.touch = TRUE],
                  "Project saved!")

loadProject(r, n, project) ==
    toast([n EXCEPT !.currentProject = project, !.canvasFormat = project.format,
                    !.activeTheme = project.theme, !.currentPageIndex = 0,
                    !.touch = (project # r.currentProject)],
          "Loaded project")

\* multiplier: canvasFormat === "post" ? 2 : 1.5, in tenths
exportMultiplier(format) == IF format = "post" THEN 20 ELSE 15

exportCanvas(r, n) ==
    IF r.fabricCanvas = 0 THEN n
    ELSE toast([n EXCEPT !.lastExport =
                    toDataURL(n.canvases[r.fabricCanvas], exportMultiplier(r.canvasFormat))],
               "Image downloaded!")

updateCanvasFormat(r, n, format) ==
    IF r.currentProject = Null \/ currentPageOf(r) = Null THEN n
    ELSE LET page == [currentPageOf(r) EXCEPT !.format = format]
             updatedProject ==
                 [r.currentProject EXCEPT
                      !.pages = replacePage(@, r.currentPageIndex, page),
                      !.updatedAt = n.now]
         IN [storeProject(r, n, updatedProject) EXCEPT !.canvasFormat = format,
                                                       !.touch = TRUE]

\* an updateTheme that leaves updatedAt as it is
updateThemeNoStamp(r, n, theme) ==
    IF r.currentProject = Null \/ currentPageOf(r) = Null THEN n
    ELSE LET page == [currentPageOf(r) EXCEPT !.theme = theme]
             updatedProject ==
                 [r.currentProject EXCEPT
                      !.pages = replacePage(@, r.currentPageIndex, page)]
         IN [storeProject(r, n, updatedProject) EXCEPT !.activeTheme = theme,
                                                       !.touch = TRUE]

updateTheme(r, n, theme) ==
    IF r.currentProject = Null \/ currentPageOf(r) = Null THEN n
    ELSE LET page == [currentPageOf(r) EXCEPT !.theme = theme]
             updatedProject ==
                 [r.currentProject EXCEPT
                      !.pages = replacePage(@, r.currentPageIndex, page),
                      !.updatedAt = n.now]
         IN [storeProject(r, n, updatedProject) EXCEPT !.activeTheme = theme,
                                                       !.touch = TRUE]

\* the page navigation button: onClick={() => setCurrentPageIndex(index)}
selectPage(r, n, index) ==
    [n EXCEPT !.currentPageIndex = index, !.touch = (index # r.currentPageIndex)]

\* the effect with deps [projects]
\* a projects effect that does not create a project for an empty list
projectsEffectNoCreate(r, n) ==
    IF Len(r.projects) = 0 THEN n
    ELSE IF r.currentProject = Null
    THEN [n EXCEPT !.currentProject = r.projects[1], !.currentPageIndex = 0, !.touch = TRUE]
    ELSE n

projectsEffect(r, n) ==
    IF Len(r.projects) = 0 THEN createNewProject(r, n)
    ELSE IF r.currentProject = Null
    THEN [n EXCEPT !.currentProject = r.projects[1], !.currentPageIndex = 0, !.touch = TRUE]
    ELSE n

\* the effect with deps [currentPage]
currentPageEffect(r, n) ==
    IF currentPageOf(r) # Null
    THEN [n EXCEPT !.canvasFormat = currentPageOf(r).format,
                   !.activeTheme = currentPageOf(r).theme]
    ELSE n

\* The Toolbar's effect with deps [canvas]: its cleanup takes the handlers
\* off the canvas of the render before, its body puts them on the canvas of
\* this render.  In a commit the cleanups run before every effect body, and
\* the body runs after the Canvas's effects, the Canvas being rendered first.
selectionCleanup(p, r, n) ==
    IF r.fabricCanvas # p.fabricCanvas THEN [n EXCEPT !.listening = 0] ELSE n
selectionEffect(p, r, n) ==
    IF r.fabricCanvas # p.fabricCanvas THEN [n EXCEPT !.listening = r.fabricCanvas] ELSE n

\* what the saveProject of render r reads
closure(r) ==
    [projects |-> r.projects, currentProject |-> r.currentProject,
     currentPageIndex |-> r.currentPageIndex, fabricCanvas |-> r.fabricCanvas]

\* The editor's effect with deps [currentProject, fabricCanvas, currentPage]:
\* it replaces the interval by one that calls the saveProject of this render.
autosaveEffect(p, r, n) ==
    IF \/ r.touch
       \/ p.currentProject # r.currentProject
       \/ p.fabricCanvas # r.fabricCanvas
       \/ currentPageOf(p) # currentPageOf(r)
    THEN [n EXCEPT !.interval = closure(r)]
    ELSE n

\* ------------------------------------------------- rendering and effects
\* what a re-render depends on
reactState(s) ==
    <<s.projects, s.currentProject, s.currentPageIndex, s.canvasFormat, s.activeTheme,
      s.fabricCanvas, s.isInitialized>>

\* One commit: the effects of render r, p being the render committed
\* before.  Children's effects run before the parent's.
commitEffects(p, r) ==
    Only({IF r.touch \/ currentPageOf(p) # currentPageOf(r)
          THEN currentPageEffect(r, n2)
          ELSE n2 :
             n2 \in {IF r.projSet THEN projectsEffect(r, n1) ELSE n1 :
                        n1 \in {autosaveEffect(
                                    p, r, selectionEffect(p, r, canvasEffects(p, r, n0))) :
                                   n0 \in {selectionCleanup(
                                               p, r, [r EXCEPT !.projSet = FALSE,
                                                               !.touch = FALSE])}}}})

\* render and commit until no state update is pending
RECURSIVE settle(_, _)
settle(p, r) ==
    Only({IF reactState(n) = reactState(r) /\ ~n.projSet /\ ~n.touch THEN n
          ELSE settle(r, n) :
             n \in {commitEffects(p, r)}})

\* ------------------------------------------------------------ Toolbar.tsx
\* The Toolbar's canvas prop is the editor's fabricCanvas state.

\* an addText that puts the text below the other elements
addTextBelow(r, n) ==
    IF r.fabricCanvas = 0 THEN n
    ELSE LET cv == n.canvases[r.fabricCanvas]
             text == Textbox("New text", cv.width \div 2, cv.height \div 2, NewTextFontSize,
                             addTextFill(r.activeTheme), (cv.width * 8) \div 10)
             oid == FreshOid(cv.objects)
         IN toast(selectionEvents(
                      [n EXCEPT !.canvases[r.fabricCanvas] =
                           [cv EXCEPT !.objects = <<[text EXCEPT !.oid = oid]>> \o @,
                                      !.active = <<oid>>]],
                      r.fabricCanvas, cv.active),
                  "Text added!")

addText(r, n) ==
    IF r.fabricCanvas = 0 THEN n
    ELSE LET cv == n.canvases[r.fabricCanvas]
             text == Textbox("New text", cv.width \div 2, cv.height \div 2, NewTextFontSize,
                             addTextFill(r.activeTheme), (cv.width * 8) \div 10)
             added == canvasAdd(cv, text)
         IN toast(selectionEvents(
                      [n EXCEPT !.canvases[r.fabricCanvas] =
                           canvasSetActiveObject(added, lastAdded(added))],
                      r.fabricCanvas, cv.active),
                  "Text added!")

\* addImage up to FabricImage.fromURL(imgUrl): the promise keeps the canvas
\* of the render that created the handler
addImage(r, n) ==
    IF r.fabricCanvas = 0 THEN n
    ELSE [n EXCEPT !.pendingImages = Append(@, [canvas |-> r.fabricCanvas])]

\* a .then that takes the place of the topmost element instead of adding
imageLoadedOnTop(n, k, size) ==
    LET c == n.pendingImages[k].canvas
        cv == n.canvases[c]
        top == Len(cv.objects)
        img == [FabricImage(size) EXCEPT !.oid = cv.objects[top].oid]
    IN toast([n EXCEPT !.canvases[c] = IF top = 0 THEN cv
                                       ELSE canvasSetActiveObject(
                                                [cv EXCEPT !.objects[top] = img], img.oid),
                       !.pendingImages = RemoveAt(@, k)],
             "Image added!")

\* the .then of FabricImage.fromURL, for a decoded image of the given size
imageLoaded(n, k, size) ==
    LET c == n.pendingImages[k].canvas
        cv == n.canvases[c]
        img == FabricImage(size)
        \* imgAspect > canvasAspect, cross-multiplied
        wide == img.width * cv.height > cv.width * img.height
        scaled == [img EXCEPT !.scaleN = IF wide THEN cv.width * 6 ELSE cv.height * 6,
                              !.scaleD = IF wide THEN img.width * 10 ELSE img.height * 10,
                              !.left = cv.width \div 2, !.top = cv.height \div 2]
        added == canvasAdd(cv, scaled)
    IN toast(selectionEvents(
                 [n EXCEPT !.canvases[c] = canvasSetActiveObject(added, lastAdded(added)),
                           !.pendingImages = RemoveAt(@, k)],
                 c, cv.active),
             "Image added!")

\* a .catch that drops the pending decode without a notification
imageFailedSilent(n, k) == [n EXCEPT !.pendingImages = RemoveAt(@, k)]

\* the .catch of FabricImage.fromURL
imageFailed(n, k) ==
    toast([n EXCEPT !.pendingImages = RemoveAt(@, k)], "Failed to load image")

\* the guard the text handlers share: the canvas's active object, when the
\* canvas is there and that object is a textbox; else Null
activeTextbox(r, n) ==
    IF r.fabricCanvas = 0 THEN Null
    ELSE LET active == getActiveObject(n.canvases[r.fabricCanvas], r.fabricCanvas)
         IN IF active = Null \/ active.type # "textbox" THEN Null ELSE active

\* active.set(key, value) on the one object of the selection
setActive(n, active, obj) ==
    [n EXCEPT !.canvases[active.canvas].objects[
                  IndexOf(n.canvases[active.canvas].objects, active.oids[1])] = obj]
theActive(n, active) ==
    n.canvases[active.canvas].objects[
        IndexOf(n.canvases[active.canvas].objects, active.oids[1])]

\* updateText(): textContent is the one of the render the handler is from
updateText(r, n) ==
    LET active == activeTextbox(r, n)
    IN IF active = Null THEN n
       ELSE setActive(n, active, [theActive(n, active) EXCEPT !.text = r.textContent])

\* the Textarea's onChange: setTextContent(e.target.value); updateText()
textContentChange(r, n, value) == updateText(r, [n EXCEPT !.textContent = value])

updateFontSize(r, n, size) ==
    LET active == activeTextbox(r, n)
    IN IF active = Null THEN n
       ELSE setActive(n, active, [theActive(n, active) EXCEPT !.fontSize = size])

\* the font-size Input's onChange: updateFontSize(parseInt(e.target.value) || 32);
\* an input is what parseInt makes of the field: a number, or NaN
DefaultFontSize == 32
NaN == [nan |-> TRUE, number |-> 0]
Number(v) == [nan |-> FALSE, number |-> v]
fontSizeChange(r, n, parsed) ==
    updateFontSize(r, n, IF parsed.nan \/ parsed.number = 0 THEN DefaultFontSize
                         ELSE parsed.number)

updateTextColor(r, n, color) ==
    LET active == activeTextbox(r, n)
    IN IF active = Null THEN n
       ELSE setActive(n, active, [theActive(n, active) EXCEPT !.fill = color])

\* a setTextAlign that aligns every text of the canvas
setTextAlignAll(r, n, align) ==
    IF r.fabricCanvas = 0 THEN n
    ELSE [n EXCEPT !.canvases[r.fabricCanvas].objects =
              [i \in 1..Len(@) |-> IF @[i].type = "textbox"
                                   THEN [@[i] EXCEPT !.textAlign = align]
                                   ELSE @[i]]]

setTextAlign(r, n, align) ==
    LET active == activeTextbox(r, n)
    IN IF active = Null THEN n
       ELSE setActive(n, active, [theActive(n, active) EXCEPT !.textAlign = align])

\* deleteObject(): canvas.remove(active) takes the object off the canvas
\* when it is one of its objects (an ActiveSelection of several is not),
\* and a removed active object is deselected with selection:cleared
deleteObject(r, n) ==
    IF r.fabricCanvas = 0 \/ n.canvases[r.fabricCanvas].active = <<>> THEN n
    ELSE LET c == r.fabricCanvas
             cv == n.canvases[c]
             removed == IF Len(cv.active) = 1
                        THEN RemoveAt(cv.objects, IndexOf(cv.objects, cv.active[1]))
                        ELSE cv.objects
         IN toast([selectionEvents(
                       [n EXCEPT !.canvases[c] = [cv EXCEPT !.objects = removed,
                                                            !.active = <<>>]],
                       c, cv.active)
                      EXCEPT !.activeObject = Null],
                  "Object deleted!")

\* the background clearCanvas gives the canvas
clearBackground(theme) ==
    IF theme = "instagram" THEN "linear-gradient(135deg, #833ab4, #fd1d1d, #fcb045)"
    ELSE IF theme = "minimal" THEN "#ffffff"
    ELSE "#1a1a1a"

clearCanvas(r, n) ==
    IF r.fabricCanvas = 0 THEN n
    ELSE LET c == r.fabricCanvas
             cv == n.canvases[c]
         IN toast(selectionEvents(
                      [n EXCEPT !.canvases[c] =
                           [canvasClear(cv) EXCEPT
                                !.backgroundColor = clearBackground(r.activeTheme)]],
                      c, cv.active),
                  "Canvas cleared!")

\* getSelectedObjects(active): the objects of the selection
getSelectedObjects(active) == active

\* A run of a forEach over the selection: the paint order so far and the
\* indices handed to moveObjectTo so far.
moved(t, oid, index) ==
    [t EXCEPT !.objects = moveObjectTo(@, oid, index), !.targets = @ \cup {index}]

\* a bringForward that does not clamp at the top
bringForwardUnclamped(idx, length) == idx + 1

\* the index each handler hands to moveObjectTo
bringToFrontTarget(i, maxIndex) == Max(0, maxIndex - i)
sendToBackTarget(i) == i
bringForwardTarget(idx, length) == Min(idx + 1, length - 1)
sendBackwardTarget(idx) == Max(idx - 1, 0)

RECURSIVE bringToFrontEach(_, _, _, _)
bringToFrontEach(t, objs, i, maxIndex) ==
    IF i >= Len(objs) THEN t
    ELSE Only({bringToFrontEach(t1, objs, i + 1, maxIndex) :
                  t1 \in {moved(t, objs[i + 1], bringToFrontTarget(i, maxIndex))}})

RECURSIVE sendToBackEach(_, _, _)
sendToBackEach(t, objs, i) ==
    IF i >= Len(objs) THEN t
    ELSE Only({sendToBackEach(t1, objs, i + 1) :
                  t1 \in {moved(t, objs[i + 1], sendToBackTarget(i))}})

RECURSIVE bringForwardEach(_, _, _)
bringForwardEach(t, objs, i) ==
    IF i >= Len(objs) THEN t
    ELSE LET idx == IndexOf(t.objects, objs[i + 1]) - 1
         IN Only({bringForwardEach(t1, objs, i + 1) :
                     t1 \in {IF idx # -1
                             THEN moved(t, objs[i + 1],
                                        bringForwardTarget(idx, Len(t.objects)))
                             ELSE t}})

RECURSIVE sendBackwardEach(_, _, _)
sendBackwardEach(t, objs, i) ==
    IF i >= Len(objs) THEN t
    ELSE LET idx == IndexOf(t.objects, objs[i + 1]) - 1
         IN Only({sendBackwardEach(t1, objs, i + 1) :
                     t1 \in {IF idx # -1
                             THEN moved(t, objs[i + 1], sendBackwardTarget(idx))
                             ELSE t}})

\* the four forEach loops on the canvas's objects and its selection
forEachStart(cv) == [objects |-> cv.objects, targets |-> {}]
bringToFrontMoves(cv) ==
    bringToFrontEach(forEachStart(cv), getSelectedObjects(cv.active), 0, Len(cv.objects) - 1)
sendToBackMoves(cv) == sendToBackEach(forEachStart(cv), getSelectedObjects(cv.active), 0)
bringForwardMoves(cv) == bringForwardEach(forEachStart(cv), getSelectedObjects(cv.active), 0)
sendBackwardMoves(cv) == sendBackwardEach(forEachStart(cv), getSelectedObjects(cv.active), 0)

\* the shape the four handlers share
reorder(r, n, order, msg) ==
    IF r.fabricCanvas = 0 THEN n
    ELSE IF n.canvases[r.fabricCanvas].active = <<>> THEN toast(n, "No selection")
    ELSE toast([n EXCEPT !.canvases[r.fabricCanvas].objects = order], msg)

bringToFront(r, n) ==
    reorder(r, n, bringToFrontMoves(n.canvases[r.fabricCanvas]).objects, "Brought to front!")
sendToBack(r, n) ==
    reorder(r, n, sendToBackMoves(n.canvases[r.fabricCanvas]).objects, "Sent to back!")
bringForward(r, n) ==
    reorder(r, n, bringForwardMoves(n.canvases[r.fabricCanvas]).objects, "Brought forward!")
sendBackward(r, n) ==
    reorder(r, n, sendBackwardMoves(n.canvases[r.fabricCanvas]).objects, "Sent backward!")

\* The user selects objects on the canvas on screen (click, shift-click or
\* drag): the selection lists them in the canvas's stacking order.
stackingOrder(objects, S) ==
    LET F[i \in 0..Len(objects)] ==
            IF i = 0 THEN <<>>
            ELSE IF objects[i].oid \in S THEN Append(F[i - 1], objects[i].oid)
            ELSE F[i - 1]
    IN F[Len(objects)]

userSelect(n, S) ==
    selectionEvents(
        [n EXCEPT !.canvases[n.fabricCanvasRef].active =
                      stackingOrder(n.canvases[n.fabricCanvasRef].objects, S)],
        n.fabricCanvasRef, n.canvases[n.fabricCanvasRef].active)

\* ----------------------------------------------------------------- steps
\* the model's bounds on a state
withinBounds(n) ==
    /\ Len(n.projects) <= MaxProjects
    /\ \A i \in 1..Len(n.projects) : Len(n.projects[i].pages) <= MaxPages
    /\ n.currentProject # Null => Len(n.currentProject.pages) <= MaxPages
    /\ Len(n.canvases) <= MaxCanvases
    /\ \A c \in 1..Len(n.canvases) : Len(n.canvases[c].objects) <= MaxObjects
    /\ Len(n.pendingImages) <= MaxPending
    /\ Len(n.pendingLoads) <= MaxPending

\* the step that delivers event op and ends in state n, with the effects
\* of its render run (pending = Null) or still to run
become(op, n, pending) ==
    \E m \in {n} :
        /\ withinBounds(m)
        /\ pendingEffects' = pending
        /\ projects' = m.projects
        /\ currentProject' = m.currentProject
        /\ currentPageIndex' = m.currentPageIndex
        /\ canvasFormat' = m.canvasFormat
        /\ activeTheme' = m.activeTheme
        /\ fabricCanvas' = m.fabricCanvas
        /\ isInitialized' = m.isInitialized
        /\ fabricCanvasRef' = m.fabricCanvasRef
        /\ canvases' = m.canvases
        /\ pendingImages' = m.pendingImages
        /\ pendingLoads' = m.pendingLoads
        /\ now' = m.now
        /\ toasts' = m.toasts
        /\ lastExport' = m.lastExport
        /\ lastOp' = op
        /\ mounted' = m.mounted
        /\ activeObject' = m.activeObject
        /\ textContent' = m.textContent
        /\ interval' = m.interval

\* an event is delivered when no effect is pending
step(op, n) == pendingEffects = Null /\ become(op, n, Null)

\* a handler's updates, then the re-renders and effects they cause
handled(h) == Only({settle(State, n) : n \in {h}})

\* a user event: the handlers exist while the editor is mounted
click(op, h) == mounted /\ step(op, handled(h))

\* the Toolbar renders the layering and delete buttons while it has an
\* activeObject, and the text properties while that is a textbox
hasActiveObject == activeObject # Null
hasActiveTextbox == activeObject # Null /\ activeObject.type = "textbox"

\* the state before the first render, with empty local storage
Unmounted ==
    [projects |-> <<>>, currentProject |-> Null, currentPageIndex |-> 0,
     canvasFormat |-> "post", activeTheme |-> "instagram", fabricCanvas |-> 0,
     isInitialized |-> FALSE, fabricCanvasRef |-> 0, canvases |-> <<>>,
     pendingImages |-> <<>>, pendingLoads |-> <<>>, now |-> 0, toasts |-> {},
     lastExport |-> Null, projSet |-> FALSE, touch |-> FALSE, mounted |-> TRUE,
     activeObject |-> Null, textContent |-> "", listening |-> 0, interval |-> Null]

\* the first render runs every effect
Mounted ==
    Only({settle(Unmounted, n) : n \in {[Unmounted EXCEPT !.projSet = TRUE, !.touch = TRUE]}})

Init ==
    \E m \in {Mounted} :
        /\ projects = m.projects
        /\ currentProject = m.currentProject
        /\ currentPageIndex = m.currentPageIndex
        /\ canvasFormat = m.canvasFormat
        /\ activeTheme = m.activeTheme
        /\ fabricCanvas = m.fabricCanvas
        /\ isInitialized = m.isInitialized
        /\ fabricCanvasRef = m.fabricCanvasRef
        /\ canvases = m.canvases
        /\ pendingImages = m.pendingImages
        /\ pendingLoads = m.pendingLoads
        /\ now = m.now
        /\ toasts = m.toasts
        /\ lastExport = m.lastExport
        /\ lastOp = "mount"
        /\ mounted = m.mounted
        /\ activeObject = m.activeObject
        /\ textContent = m.textContent
        /\ interval = m.interval
        /\ pendingEffects = Null

\* The handlers that read the clock (Date.now) read a later value at every
\* event; the events that do not read it leave it alone.
Later == [State EXCEPT !.now = now + 1]

ClickNewProject ==
    /\ now < MaxClock
    /\ click("createNewProject", (createNewProject(Later, Later)))
\* the same two events delivered before Date.now() has moved on from the
\* reading of the event before
ClickNewProjectSameTick == click("createNewProject", (createNewProject(State, State)))
ClickAddPageSameTick == click("addNewPage", (addNewPage(State, State)))
ClickAddPage ==
    /\ now < MaxClock
    /\ click("addNewPage", (addNewPage(Later, Later)))
ClickDeletePage ==
    /\ now < MaxClock
    /\ click("deleteCurrentPage", (deleteCurrentPage(Later, Later)))
ClickSave ==
    /\ now < MaxClock
    /\ click("saveProject", (saveProject(Later, Later)))
ClickFormat ==
    /\ now < MaxClock
    /\ \E format \in Formats :
           click("updateCanvasFormat", (updateCanvasFormat(Later, Later, format)))
ClickTheme ==
    /\ now < MaxClock
    /\ \E theme \in Themes :
           click("updateTheme", (updateTheme(Later, Later, theme)))
\* the theme select with every option it offers
SelectTheme ==
    /\ now < MaxClock
    /\ \E theme \in AllThemes :
           click("updateTheme", (updateTheme(Later, Later, theme)))
ClickExport == click("exportCanvas", (exportCanvas(State, State)))
ClickLoadProject ==
    \E i \in 1..Len(projects) :
        click("loadProject", (loadProject(State, State, projects[i])))
ClickPage ==
    \E index \in 0..(MaxPages - 1) :
        /\ currentProject # Null
        /\ index < Len(currentProject.pages)
        /\ click("selectPage", (selectPage(State, State, index)))

ClickDeleteProject ==
    /\ now < MaxClock
    /\ \E i \in 1..Len(projects) :
           click("deleteProject", (deleteProject(Later, Later, projects[i].id)))
\* deleteProject up to the commit of the render it causes: the effects of
\* that render run in a step of their own.  The bound on the canvases
\* leaves room for the one the effects construct.
DeleteProjectRender ==
    /\ mounted
    /\ pendingEffects = Null
    /\ now < MaxClock
    /\ Len(canvases) < MaxCanvases
    /\ \E i \in 1..Len(projects) :
           \E n \in {deleteProject(Later, Later, projects[i].id)} :
               become("deleteProject", [n EXCEPT !.projSet = FALSE, !.touch = FALSE],
                      [p |-> State, projSet |-> n.projSet, touch |-> n.touch])
\* the effects of the committed render, and the renders and effects they
\* cause
RunEffects ==
    /\ pendingEffects # Null
    /\ become("effects",
              settle(pendingEffects.p, [State EXCEPT !.projSet = pendingEffects.projSet,
                                                     !.touch = pendingEffects.touch]),
              Null)
\* the interval fires: the saveProject it calls reads the render it was
\* created in
AutosaveTick ==
    /\ now < MaxClock
    /\ interval # Null
    /\ \E r \in {[Later EXCEPT !.projects = interval.projects,
                                !.currentProject = interval.currentProject,
                                !.currentPageIndex = interval.currentPageIndex,
                                !.fabricCanvas = interval.fabricCanvas]} :
           click("autosave", (saveProject(r, Later)))
\* the editor is unmounted: the cleanups of its effect and of the Canvas's
EditorUnmount ==
    /\ mounted
    /\ step("unmount",
            Only({[n EXCEPT !.mounted = FALSE] :
                     n \in {editorUnmountCleanup(Unmounted, initCleanup(State))}}))
ClickAddText == click("addText", (addText(State, State)))
ClickAddImage == click("addImage", (addImage(State, State)))
ImageLoaded ==
    \E k \in 1..Len(pendingImages) : \E size \in ImageSizes :
        step("imageLoaded", imageLoaded(State, k, size))
ImageFailed ==
    \E k \in 1..Len(pendingImages) : step("imageFailed", imageFailed(State, k))
LoadFromJSONDone ==
    \E k \in 1..Len(pendingLoads) :
        step("loadFromJSONDone",
             selectionEvents(
                 [State EXCEPT !.canvases[pendingLoads[k].canvas] =
                                   loadFromJSONDone(@, pendingLoads[k].json),
                               !.pendingLoads = RemoveAt(@, k)],
                 pendingLoads[k].canvas, canvases[pendingLoads[k].canvas].active))
\* the loadFromJSON promise of loadCanvasData rejects (canvasData that the
\* fabric build cannot revive); loadCanvasData attaches no handler to it
LoadFromJSONFailed ==
    \E k \in 1..Len(pendingLoads) :
        step("loadFromJSONFailed",
             [State EXCEPT !.canvases[pendingLoads[k].canvas] =
                               loadFromJSONFailed(@, pendingLoads[k].json),
                           !.pendingLoads = RemoveAt(@, k)])

UserSelect ==
    /\ fabricCanvasRef # 0
    /\ \E S \in SUBSET Oids(canvases[fabricCanvasRef].objects) :
           (mounted /\ step("select", userSelect(State, S)))
\* what the user types and picks in the text properties
TextInputs == {"Hello"}
FontSizeInputs == {NaN, Number(0), Number(0 - 5), Number(48)}
ColorInputs == {"#ff0000"}
Alignments == {"left", "center", "right"}

TextContentChange ==
    /\ hasActiveTextbox
    /\ \E value \in TextInputs :
           click("textContentChange", (textContentChange(State, State, value)))
FontSizeChange ==
    /\ hasActiveTextbox
    /\ \E parsed \in FontSizeInputs :
           click("fontSizeChange", (fontSizeChange(State, State, parsed)))
TextColorChange ==
    /\ hasActiveTextbox
    /\ \E color \in ColorInputs :
           click("updateTextColor", (updateTextColor(State, State, color)))
ClickTextAlign ==
    /\ hasActiveTextbox
    /\ \E align \in Alignments :
           click("setTextAlign", (setTextAlign(State, State, align)))
ClickDeleteObject == hasActiveObject /\ click("deleteObject", (deleteObject(State, State)))
ClickClearCanvas == click("clearCanvas", (clearCanvas(State, State)))
ClickBringToFront == hasActiveObject /\ click("bringToFront", (bringToFront(State, State)))
ClickSendToBack == hasActiveObject /\ click("sendToBack", (sendToBack(State, State)))
ClickBringForward == hasActiveObject /\ click("bringForward", (bringForward(State, State)))
ClickSendBackward == hasActiveObject /\ click("sendBackward", (sendBackward(State, State)))

\* the editor's project and page operations
Next ==
    \/ ClickNewProject
    \/ ClickAddPage
    \/ ClickDeletePage
    \/ ClickSave
    \/ ClickLoadProject
    \/ ClickFormat
    \/ ClickTheme
    \/ ClickPage
    \/ LoadFromJSONDone

Spec == Init /\ [][Next]_vars

\* one project: pages, text, save and page switches
NextPages ==
    \/ ClickAddPage
    \/ ClickPage
    \/ ClickAddText
    \/ ClickSave
    \/ ClickFormat
    \/ LoadFromJSONDone

SpecPages == Init /\ [][NextPages]_vars

\* images: decode completions against format rebuilds
NextImages ==
    \/ ClickAddImage
    \/ ImageLoaded
    \/ ImageFailed
    \/ ClickFormat
    \/ ClickAddText

SpecImages == Init /\ [][NextImages]_vars

\* the paint order: selections and the four reorder operations
NextReorder ==
    \/ ClickAddText
    \/ UserSelect
    \/ ClickBringToFront
    \/ ClickSendToBack
    \/ ClickBringForward
    \/ ClickSendBackward

SpecReorder == Init /\ [][NextReorder]_vars

\* export: the download against formats, themes and added text
NextExport ==
    \/ ClickExport
    \/ ClickFormat
    \/ ClickTheme
    \/ ClickAddText

SpecExport == Init /\ [][NextExport]_vars

\* decodes in flight on one canvas, against text additions and theme changes
NextDecode ==
    \/ ClickAddImage
    \/ ImageLoaded
    \/ ImageFailed
    \/ ClickAddText
    \/ ClickTheme

SpecDecode == Init /\ [][NextDecode]_vars

\* the text properties: the four update operations on the user's selections
NextText ==
    \/ UserSelect
    \/ TextContentChange
    \/ FontSizeChange
    \/ TextColorChange
    \/ ClickTextAlign

SpecText == Init /\ [][NextText]_vars

\* the theme tables: every theme against added text and a cleared canvas
NextThemes ==
    \/ SelectTheme
    \/ ClickAddText
    \/ ClickClearCanvas

SpecThemes == Init /\ [][NextThemes]_vars

\* the codec: images saved, rebuilt and loaded again
NextRoundTrip ==
    \/ ClickAddImage
    \/ ImageLoaded
    \/ ClickSave
    \/ ClickFormat
    \/ LoadFromJSONDone

SpecRoundTrip == Init /\ [][NextRoundTrip]_vars

\* loading: saved pages activated again, the load settling either way
NextLoad ==
    \/ ClickSave
    \/ ClickAddPage
    \/ ClickPage
    \/ ClickFormat
    \/ LoadFromJSONDone
    \/ LoadFromJSONFailed

SpecLoad == Init /\ [][NextLoad]_vars

\* teardown: rebuilds, project deletion and unmount against image decodes
NextLifecycle ==
    \/ ClickFormat
    \/ ClickDeleteProject
    \/ EditorUnmount
    \/ ClickAddImage
    \/ ImageLoaded

SpecLifecycle == Init /\ [][NextLifecycle]_vars

\* ------------------------------------------------------------ properties
\* the live graph is the object list of the editor's canvas
liveObjects == IF fabricCanvas = 0 THEN <<>> ELSE canvases[fabricCanvas].objects
paintOrder(objs) == [i \in 1..Len(objs) |-> objs[i].oid]
position(order, x) == CHOOSE i \in 1..Len(order) : order[i] = x
without(order, x) == LET keep(o) == o # x IN SelectSeq(order, keep)
ReorderDone == {"Brought to front!", "Sent to back!", "Brought forward!", "Sent backward!"}

\* C1: after any sequence of createNewProject, addNewPage, deleteCurrentPage,
\* saveProject, updateCanvasFormat, updateTheme and loadProject the current
\* project (and every stored project) has at least one page, and
\* deleteCurrentPage on a project with exactly one page leaves the page list
\* unchanged.
C1_DocumentNeverEmpty ==
    [][/\ currentProject # Null /\ Len(currentProject.pages) >= 1
       /\ currentProject' # Null /\ Len(currentProject'.pages) >= 1
       /\ \A i \in 1..Len(projects') : Len(projects'[i].pages) >= 1
       /\ (lastOp' = "deleteCurrentPage" /\ Len(currentProject.pages) = 1)
              => currentProject'.pages = currentProject.pages]_vars

\* deleteCurrentPage was called on a one-page project and rejected
C1_SolePageKept ==
    /\ lastOp = "deleteCurrentPage"
    /\ "Page deleted" \notin toasts
    /\ currentProject # Null
    /\ Len(currentProject.pages) = 1
    /\ Len(projects) = MaxProjects

\* C2: when the canvas addImage was issued for is disposed before the decode
\* completes, the completion inserts nothing into any canvas (neither the
\* new one nor the disposed one) and reports nothing: it is discarded.
C2_StaleDecodeDiscarded ==
    [][\A k \in 1..Len(pendingImages) :
           (/\ lastOp' = "imageLoaded"
            /\ pendingImages' = RemoveAt(pendingImages, k)
            /\ canvases[pendingImages[k].canvas].disposed)
               => /\ canvases' = canvases
                  /\ "Image added!" \notin toasts']_vars

\* C3: a page switch writes the live graph of the page being left into that
\* page's canvasData before the selected page is loaded.
C3_SwitchWritesBack ==
    [][(lastOp' = "selectPage" /\ currentPageIndex' # currentPageIndex)
           => currentProject'.pages[currentPageIndex + 1].canvasData
                  = toJSON(canvases[fabricCanvas])]_vars

\* C4: mounting the Canvas for a page without canvasData, effects run to
\* quiescence, gives a live graph of exactly one element: the placeholder
\* Textbox, centered, filled with the active theme's text color.
C4_OnePlaceholder ==
    (lastOp = "mount" /\ currentPageOf(State).canvasData = Null)
        => /\ Len(liveObjects) = 1
           /\ liveObjects[1].type = "textbox"
           /\ liveObjects[1].text = "Tap to edit text"
           /\ liveObjects[1].left * 2 = canvases[fabricCanvas].width
           /\ liveObjects[1].top * 2 = canvases[fabricCanvas].height
           /\ liveObjects[1].fill = getTextColor(activeTheme)

\* C5: after a switch from page A, whose live graph holds elements, to a
\* page B of the same format without canvasData, the live graph holds no
\* element that was in it on page A.
C5_NoElementCarriedOver ==
    [][(/\ lastOp' = "selectPage"
        /\ currentPageIndex' # currentPageIndex
        /\ currentPageOf(State).format = currentProject'.pages[currentPageIndex' + 1].format
        /\ currentProject'.pages[currentPageIndex' + 1].canvasData = Null
        /\ fabricCanvas' = fabricCanvas
        /\ liveObjects # <<>>)
           => Oids(liveObjects') \cap Oids(liveObjects) = {}]_vars

\* C6: with a selection of two or more elements, each of the four reorder
\* operations keeps the selected elements' order among themselves and
\* displaces each of them by the same number of slots.
C6_SelectionMovesAsOne ==
    [][(toasts' \cap ReorderDone # {} /\ Len(canvases[fabricCanvas].active) >= 2)
           => LET before == paintOrder(liveObjects)
                  after == paintOrder(liveObjects')
                  sel == {canvases[fabricCanvas].active[i] :
                              i \in 1..Len(canvases[fabricCanvas].active)}
              IN \A x, y \in sel :
                     /\ position(before, x) < position(before, y)
                            => position(after, x) < position(after, y)
                     /\ position(after, x) - position(before, x)
                            = position(after, y) - position(before, y)]_vars

\* the graph of the examples: elements 0, 1, 2 in paint order
ExampleGraph ==
    [i \in 1..3 |-> [Textbox("New text", 0, 0, NewTextFontSize, "#ffffff", 0)
                         EXCEPT !.oid = i - 1]]
ExampleCanvas(selected) ==
    [FabricCanvas(0, 0, "#ffffff") EXCEPT !.objects = ExampleGraph, !.active = <<selected>>]

\* C7: with one element selected in a graph of n elements, sendToBack puts it
\* at paint index 0 and bringToFront at paint index n-1, the other elements
\* keeping their order; on [0,1,2], sendToBack of 2 gives [2,0,1] and
\* bringToFront of 0 gives [1,2,0].
C7_SingleToEnd ==
    [][/\ (fabricCanvas # 0 /\ Len(canvases[fabricCanvas].active) = 1)
              => LET x == canvases[fabricCanvas].active[1]
                     before == paintOrder(liveObjects)
                     after == paintOrder(liveObjects')
                 IN /\ lastOp' = "sendToBack" => after = <<x>> \o without(before, x)
                    /\ lastOp' = "bringToFront" => after = without(before, x) \o <<x>>
       /\ paintOrder(sendToBackMoves(ExampleCanvas(2)).objects) = <<2, 0, 1>>
       /\ paintOrder(bringToFrontMoves(ExampleCanvas(0)).objects) = <<1, 2, 0>>]_vars

\* the top element of three was selected alone and sent to the back
C7_TopSentToBack ==
    /\ lastOp = "sendToBack"
    /\ "Sent to back!" \in toasts
    /\ canvases[fabricCanvas].active = <<3>>
    /\ paintOrder(liveObjects) = <<3, 1, 2>>

\* the indices a reorder handler hands to moveObjectTo on canvas cv
reorderTargets(op, cv) ==
    CASE op = "bringToFront" -> bringToFrontMoves(cv).targets
      [] op = "sendToBack" -> sendToBackMoves(cv).targets
      [] op = "bringForward" -> bringForwardMoves(cv).targets
      [] op = "sendBackward" -> sendBackwardMoves(cv).targets

\* C8: every reorder operation yields a permutation of the same elements
\* with every target index in [0, n-1]; bringForward on the topmost element
\* and sendBackward on the bottommost leave the paint order unchanged.
C8_ReorderClamps ==
    [][(toasts' \cap ReorderDone # {})
           => LET cv == canvases[fabricCanvas]
                  n == Len(cv.objects)
              IN /\ Len(liveObjects') = n
                 /\ {liveObjects'[i] : i \in 1..n} = {cv.objects[i] : i \in 1..n}
                 /\ reorderTargets(lastOp', cv) \subseteq 0..(n - 1)
                 /\ (lastOp' = "bringForward" /\ cv.active = <<cv.objects[n].oid>>)
                        => liveObjects' = cv.objects
                 /\ (lastOp' = "sendBackward" /\ cv.active = <<cv.objects[1].oid>>)
                        => liveObjects' = cv.objects]_vars

\* bringForward was applied to the topmost of three elements
C8_TopBroughtForward ==
    /\ lastOp = "bringForward"
    /\ "Brought forward!" \in toasts
    /\ canvases[fabricCanvas].active = <<3>>
    /\ paintOrder(liveObjects) = <<1, 2, 3>>

\* C9: an export is a bitmap of base size times multiplier: 2160x2160 for
\* format post, 1620x2880 for format story.
C9_ExportSize ==
    (lastOp = "exportCanvas" /\ lastExport # Null)
        => lastExport = [w |-> (canvasWidth(canvasFormat) * exportMultiplier(canvasFormat)) \div 10,
                         h |-> (canvasHeight(canvasFormat) * exportMultiplier(canvasFormat)) \div 10]

\* the canvas instances created and not disposed
ActiveCanvases == {c \in 1..Len(canvases) : ~canvases[c].disposed}

\* C10: at every moment at most one canvas instance is active, the one the
\* Canvas component refers to: every instance constructed before it has
\* been disposed.
C10_OneActiveCanvas ==
    /\ Cardinality(ActiveCanvases) <= 1
    /\ ActiveCanvases \subseteq {fabricCanvasRef}

\* a second canvas was constructed after the first was disposed
C10_Rebuilt ==
    /\ Len(canvases) >= 2
    /\ canvases[1].disposed
    /\ ActiveCanvases = {Len(canvases)}

\* the instances that have been disposed
Disposed == {c \in 1..Len(canvases) : canvases[c].disposed}

C12_NoUseOfDisposed ==
    [][\A c \in 1..Len(canvases) :
           canvases'[c] # canvases[c]
               => /\ c \notin Disposed
                  /\ lastOp' \in {"addText", "imageLoaded"} => c = fabricCanvas]_vars

\* two elements with the same field values (a scale compared as a fraction)
sameFields(a, b) ==
    /\ [a EXCEPT !.oid = 0, !.scaleN = 0, !.scaleD = 0]
           = [b EXCEPT !.oid = 0, !.scaleN = 0, !.scaleD = 0]
    /\ a.scaleN * b.scaleD = b.scaleN * a.scaleD

\* what activating a page from canvasData json puts on canvas cv
reactivated(cv, json) == loadFromJSONDone(canvasClear(cv), json).objects

\* C13: saving the active page and re-activating it from its canvasData
\* gives a live graph with the elements of the graph at save time: as many,
\* in the same paint order, each with the same field values.
C13_SaveThenReactivate ==
    [][(lastOp' = "saveProject" /\ "Project saved!" \in toasts')
           => LET saved == canvases[fabricCanvas].objects
                  back == reactivated(canvases[fabricCanvas],
                                      currentPageOf(State').canvasData)
              IN /\ Len(back) = Len(saved)
                 /\ \A i \in 1..Len(saved) : sameFields(back[i], saved[i])]_vars

\* C14: when loading the canvasData of the page being activated fails, the
\* page is activated with the placeholder (the live graph is the single
\* default text), and the canvasData of the pages stays as it was.
C14_FailedLoadFallsBack ==
    [][\A k \in 1..Len(pendingLoads) :
           (/\ lastOp' = "loadFromJSONFailed"
            /\ pendingLoads' = RemoveAt(pendingLoads, k)
            /\ pendingLoads[k].canvas = fabricCanvas
            /\ Len(pendingLoads) = 1)
               => /\ Len(canvases'[fabricCanvas].objects) = 1
                  /\ canvases'[fabricCanvas].objects[1].text = "Tap to edit text"
                  /\ projects' = projects]_vars

\* C15: when the decode of an added image fails, the live graph (elements,
\* paint order, selection) and every other canvas are exactly as before,
\* and the error notification is issued.
C15_FailedDecodeLeavesGraph ==
    [][lastOp' = "imageFailed"
           => /\ canvases' = canvases
              /\ fabricCanvas' = fabricCanvas
              /\ "Failed to load image" \in toasts'
              /\ "Image added!" \notin toasts']_vars

\* a decode has failed on a canvas that holds elements and a selection
C15_DecodeFailed ==
    /\ lastOp = "imageFailed"
    /\ "Failed to load image" \in toasts
    /\ Len(liveObjects) >= 3
    /\ canvases[fabricCanvas].active # <<>>
    /\ \E i \in 1..Len(liveObjects) : liveObjects[i].type = "image"

\* C16: with several addImage in flight on the active canvas, whichever
\* decode completes next appends exactly one image on top of the paint
\* order, keeps every element that was there, selects the new image, and
\* leaves the other decodes in flight.
C16_EachDecodeAppendsOne ==
    [][\A k \in 1..Len(pendingImages) :
           (/\ lastOp' = "imageLoaded"
            /\ pendingImages' = RemoveAt(pendingImages, k)
            /\ pendingImages[k].canvas = fabricCanvas
            /\ fabricCanvas \notin Disposed)
               => LET before == canvases[fabricCanvas].objects
                      after == canvases'[fabricCanvas].objects
                  IN /\ Len(after) = Len(before) + 1
                     /\ SubSeq(after, 1, Len(before)) = before
                     /\ after[Len(after)].type = "image"
                     /\ after[Len(after)].oid \notin Oids(before)
                     /\ canvases'[fabricCanvas].active = <<after[Len(after)].oid>>
                     /\ \A c \in 1..Len(canvases) :
                            c # fabricCanvas => canvases'[c] = canvases[c]]_vars

\* a decode has completed on the active canvas while another one for the
\* same canvas is still in flight, and its image is the selection
C16_OneOfSeveralCompleted ==
    /\ lastOp = "imageLoaded"
    /\ Len(pendingImages) >= 1
    /\ \A k \in 1..Len(pendingImages) : pendingImages[k].canvas = fabricCanvas
    /\ liveObjects # <<>>
    /\ liveObjects[Len(liveObjects)].type = "image"
    /\ canvases[fabricCanvas].active = <<liveObjects[Len(liveObjects)].oid>>

\* C17: an added image is scaled so that its scaled width and its scaled
\* height are both at most 60% of the shorter side of its canvas.
C17_ImageFitsShorterSide ==
    \A c \in 1..Len(canvases) : \A i \in 1..Len(canvases[c].objects) :
        LET cv == canvases[c]
            img == cv.objects[i]
            shorter == Min(cv.width, cv.height)
        IN img.type = "image"
               => /\ img.width * img.scaleN * 10 <= 6 * shorter * img.scaleD
                  /\ img.height * img.scaleN * 10 <= 6 * shorter * img.scaleD

\* C18: a page created by addNewPage takes the format and the theme of its
\* project (Project.format, Project.theme).
C18_NewPageTakesProjectDefaults ==
    [][(lastOp' = "addNewPage" /\ "New page added!" \in toasts')
           => LET newPage == currentProject'.pages[Len(currentProject'.pages)]
              IN /\ newPage.format = currentProject.format
                 /\ newPage.theme = currentProject.theme]_vars

\* the operations that change the current project or one of its pages
Mutations ==
    {"addNewPage", "deleteCurrentPage", "saveProject", "updateCanvasFormat", "updateTheme"}

\* the project with the given id, in the state's project list
stored(projs, id) == CHOOSE i \in 1..Len(projs) : projs[i].id = id

\* C19: each of addNewPage, deleteCurrentPage, saveProject,
\* updateCanvasFormat and updateTheme that changes the current project sets
\* its updatedAt, in the project list too, to the time of the operation;
\* and no step makes the updatedAt of a project smaller.
C19_UpdatedAtAdvances ==
    [][/\ (lastOp' \in Mutations /\ currentProject' # currentProject)
              => /\ currentProject'.updatedAt = now'
                 /\ now' > now
                 /\ projects'[stored(projects', currentProject'.id)] = currentProject'
       /\ \A i \in 1..Len(projects) : \A j \in 1..Len(projects') :
              projects'[j].id = projects[i].id
                  => projects'[j].updatedAt >= projects[i].updatedAt
       /\ (currentProject # Null /\ currentProject' # Null
             /\ currentProject'.id = currentProject.id)
              => currentProject'.updatedAt >= currentProject.updatedAt]_vars

\* the theme of a page was changed at a time later than the project's
\* creation and earlier updates, and updatedAt is that time
C19_StampedByThemeChange ==
    /\ lastOp = "updateTheme"
    /\ currentProject.updatedAt = now
    /\ now = MaxClock
    /\ currentProject.createdAt < now
    /\ Len(currentProject.pages) = 2

\* C20: createNewProject produces a project with exactly one page, which
\* has no canvasData and carries the editor's current format and theme, as
\* does the project; it is put in front of the project list and made
\* current with page index 0.
C20_NewProjectOnePage ==
    [][lastOp' = "createNewProject"
           => /\ Len(currentProject'.pages) = 1
              /\ currentProject'.pages[1].canvasData = Null
              /\ currentProject'.pages[1].format = canvasFormat
              /\ currentProject'.pages[1].theme = activeTheme
              /\ currentProject'.format = canvasFormat
              /\ currentProject'.theme = activeTheme
              /\ projects' = <<currentProject'>> \o projects
              /\ currentPageIndex' = 0]_vars

\* a second project was created while the second page of a story project
\* was current
C20_SecondProjectCreated ==
    /\ lastOp = "createNewProject"
    /\ Len(projects) = 2
    /\ currentProject = projects[1]
    /\ currentPageIndex = 0
    /\ currentProject.format = "story"
    /\ Len(currentProject.pages) = 1
    /\ Len(projects[2].pages) = 2

\* C21: addNewPage appends the new page at the end of the page list, leaves
\* the pages that were there and their order unchanged and makes the new
\* page the active one; deleteCurrentPage removes the active page only and
\* keeps the others in their order.
C21_PagesAppendedAndRemoved ==
    [][/\ (lastOp' = "addNewPage" /\ "New page added!" \in toasts')
              => LET before == currentProject.pages
                     after == currentProject'.pages
                 IN /\ Len(after) = Len(before) + 1
                    /\ SubSeq(after, 1, Len(before)) = before
                    /\ after[Len(after)].id \notin {before[i].id : i \in 1..Len(before)}
                    /\ currentPageIndex' = Len(after) - 1
                    /\ currentPageOf(State') = after[Len(after)]
       /\ (lastOp' = "deleteCurrentPage" /\ "Page deleted" \in toasts')
              => /\ currentPageIndex + 1 \in 1..Len(currentProject.pages)
                 /\ currentProject'.pages
                        = RemoveAt(currentProject.pages, currentPageIndex + 1)]_vars

\* the first of two pages was deleted: the page that is left is the second
C21_FirstPageDeleted ==
    /\ lastOp = "deleteCurrentPage"
    /\ "Page deleted" \in toasts
    /\ Len(currentProject.pages) = 1
    /\ currentProject.pages[1].name = 2

\* the graph of canvas c in state n with the named field of every element
\* blanked, and with every field of the element oid blanked
blank(obj, field) ==
    CASE field = "text" -> [obj EXCEPT !.text = ""]
      [] field = "fontSize" -> [obj EXCEPT !.fontSize = 0]
      [] field = "fill" -> [obj EXCEPT !.fill = ""]
      [] field = "textAlign" -> [obj EXCEPT !.textAlign = ""]
TextOps ==
    [textContentChange |-> "text", fontSizeChange |-> "fontSize",
     updateTextColor |-> "fill", setTextAlign |-> "textAlign"]

\* a state like s but with an image on top of the live graph, selected
withImageSelected(s) ==
    LET added == canvasAdd(s.canvases[s.fabricCanvas], FabricImage(<<400, 100>>))
    IN [s EXCEPT !.canvases[s.fabricCanvas] = canvasSetActiveObject(added, lastAdded(added))]

\* a state like s but with nothing, or with every element, selected
withSelection(s, oids) == [s EXCEPT !.canvases[s.fabricCanvas].active = oids]

\* the four handlers leave the canvases of state s as they are
textOpsIdle(t) ==
    \E s \in {t} :
        /\ \A value \in TextInputs : textContentChange(s, s, value).canvases = s.canvases
        /\ \A parsed \in FontSizeInputs : fontSizeChange(s, s, parsed).canvases = s.canvases
        /\ \A color \in ColorInputs : updateTextColor(s, s, color).canvases = s.canvases
        /\ \A align \in Alignments : setTextAlign(s, s, align).canvases = s.canvases

\* C22: updateText, updateFontSize, updateTextColor and setTextAlign change
\* at most the named field of the selected element, no other element, no
\* other canvas and not the selection; and run with an empty selection, a
\* selected image or a selection of several elements they change nothing.
C22_OnlyNamedFieldOfSelected ==
    [][/\ lastOp' \in DOMAIN TextOps
              => LET cv == canvases[fabricCanvas]
                     i == IndexOf(cv.objects, cv.active[1])
                 IN /\ Len(cv.active) = 1
                    /\ cv.objects[i].type = "textbox"
                    /\ canvases' = [canvases EXCEPT ![fabricCanvas].objects[i] =
                                        canvases'[fabricCanvas].objects[i]]
                    /\ blank(canvases'[fabricCanvas].objects[i], TextOps[lastOp'])
                           = blank(cv.objects[i], TextOps[lastOp'])
       /\ \E s \in {State'} :
              /\ textOpsIdle(withSelection(s, <<>>))
              /\ textOpsIdle(withSelection(s, paintOrder(liveObjects')))
              /\ textOpsIdle(withImageSelected(s))]_vars

\* the alignment of the selected text was changed and the other text of the
\* graph has the alignment it was created with
C22_OneOfTwoAligned ==
    /\ lastOp = "setTextAlign"
    /\ Len(liveObjects) = 2
    /\ canvases[fabricCanvas].active = <<1>>
    /\ liveObjects[1].textAlign = "right"
    /\ liveObjects[2].textAlign = "center"

\* C23: once the change handler of the text-content field has run, the
\* selected text holds the value the user entered.
C23_ContentIsWhatWasEntered ==
    [][lastOp' = "textContentChange"
           => LET cv == canvases'[fabricCanvas']
              IN cv.objects[IndexOf(cv.objects, cv.active[1])].text = textContent']_vars

\* C24: the fontSize of every text element is a positive number, whatever
\* the font-size field delivered.
C24_FontSizePositive ==
    \A c \in 1..Len(canvases) : \A i \in 1..Len(canvases[c].objects) :
        canvases[c].objects[i].type = "textbox" => canvases[c].objects[i].fontSize > 0

\* C25: for every theme, clearCanvas leaves a graph with no element and
\* with the background getThemeBackground gives that theme.
C25_ClearedToThemeBackground ==
    [][lastOp' = "clearCanvas"
           => /\ liveObjects' = <<>>
              /\ canvases'[fabricCanvas'].backgroundColor
                     = getThemeBackground(activeTheme')]_vars

\* C27: the fill of a text inserted by addText is the default text color of
\* the active theme, the one getTextColor gives the placeholder and the brush.
C27_OneTextColorPerTheme ==
    [][lastOp' = "addText"
           => liveObjects'[Len(liveObjects')].fill = getTextColor(activeTheme')]_vars

\* C26: addText adds exactly one text element, at the center of the canvas
\* and on top of the paint order, selects it, and leaves the other elements
\* and their order, and every other canvas, unchanged.
C26_AddTextAddsOneOnTop ==
    [][lastOp' = "addText"
           => LET cv == canvases[fabricCanvas]
                  after == canvases'[fabricCanvas]
                  text == after.objects[Len(after.objects)]
              IN /\ fabricCanvas' = fabricCanvas
                 /\ fabricCanvas \notin Disposed
                 /\ "Text added!" \in toasts'
                 /\ Len(after.objects) = Len(cv.objects) + 1
                 /\ SubSeq(after.objects, 1, Len(cv.objects)) = cv.objects
                 /\ text.type = "textbox"
                 /\ text.oid \notin Oids(cv.objects)
                 /\ 2 * text.left = cv.width
                 /\ 2 * text.top = cv.height
                 /\ after.active = <<text.oid>>
                 /\ [after EXCEPT !.objects = <<>>, !.active = <<>>]
                        = [cv EXCEPT !.objects = <<>>, !.active = <<>>]
                 /\ \A c \in 1..Len(canvases) :
                        c # fabricCanvas => canvases'[c] = canvases[c]]_vars

\* a text was added on top of an image and is the selection
C26_TextAddedOverImage ==
    /\ lastOp = "addText"
    /\ Len(liveObjects) >= 2
    /\ liveObjects[Len(liveObjects)].text = "New text"
    /\ liveObjects[Len(liveObjects) - 1].type = "image"
    /\ canvases[fabricCanvas].active = <<liveObjects[Len(liveObjects)].oid>>
    /\ activeObject # Null
    /\ activeObject.oids = canvases[fabricCanvas].active

\* rejected operations: the last page, and the Toolbar's handlers when the
\* canvas has no selection
NextRejected ==
    \/ ClickAddText
    \/ ClickSave
    \/ ClickFormat
    \/ LoadFromJSONDone
    \/ ClickDeletePage
    \/ ClickDeleteObject
    \/ ClickBringToFront
    \/ TextColorChange

SpecRejected == Init /\ [][NextRejected]_vars

\* the operations the Toolbar rejects when nothing is selected
SelectionOps ==
    DOMAIN TextOps \cup {"deleteObject", "bringToFront", "sendToBack", "bringForward", "sendBackward"}

\* the step is an operation the program rejects
rejected ==
    \/ lastOp' = "deleteCurrentPage" /\ currentProject # Null /\ Len(currentProject.pages) <= 1
    \/ lastOp' \in SelectionOps /\ fabricCanvas # 0 /\ canvases[fabricCanvas].active = <<>>

\* C28: every rejected operation (deleteCurrentPage on the last page, and
\* deleteObject, the text updates and the four reorder operations with an
\* empty selection) leaves the project and the graph unchanged and issues
\* a notification.
C28_RejectedOpsNotify ==
    [][rejected => /\ projects' = projects
                   /\ currentProject' = currentProject
                   /\ canvases' = canvases
                   /\ toasts' # {}]_vars

\* the Toolbar's activeObject against the canvas: adding, deleting,
\* clearing, activating a page and rebuilding the canvas
NextSelection ==
    \/ ClickAddText
    \/ ClickDeleteObject
    \/ ClickClearCanvas
    \/ ClickAddPage
    \/ ClickFormat

SpecSelection == Init /\ [][NextSelection]_vars

\* the selected element of the active canvas, or Null
selectedElement ==
    IF fabricCanvas = 0 THEN Null
    ELSE getActiveObject(canvases[fabricCanvas], fabricCanvas)

\* C29: while the editor is mounted the Toolbar's activeObject is the
\* active canvas's selected element, or null when nothing is selected, and
\* never an element of a disposed canvas.
C29_ActiveObjectIsSelection ==
    mounted => /\ activeObject = selectedElement
               /\ activeObject # Null => activeObject.canvas \notin Disposed

\* saving against deleting: explicit saves and the autosave interval
NextAutosave ==
    \/ ClickNewProject
    \/ ClickDeleteProject
    \/ ClickLoadProject
    \/ ClickSave
    \/ AutosaveTick

SpecAutosave == Init /\ [][NextAutosave]_vars

\* the ids of the stored projects
storedIds == {projects[i].id : i \in 1..Len(projects)}

\* C30: no explicit save and no autosave writes a project into the stored
\* list that is not in it, such as one that deleteProject has removed since
\* the autosave's saveProject was created.
C30_SaveNeverRestoresDeleted ==
    [][lastOp' \in {"saveProject", "autosave"} => storedIds' \subseteq storedIds]_vars

\* saving against page activation: saves while a page's load is pending
NextSaveRace ==
    \/ ClickAddPage
    \/ ClickPage
    \/ ClickSave
    \/ AutosaveTick
    \/ LoadFromJSONDone

SpecSaveRace == Init /\ [][NextSaveRace]_vars

\* a loadFromJSON of the active canvas has not completed
loadPending == \E k \in 1..Len(pendingLoads) : pendingLoads[k].canvas = fabricCanvas

\* C31: a save, explicit or by the autosave interval, that runs while the
\* current page's loadFromJSON has not completed does not overwrite that
\* page's canvasData.
C31_SaveKeepsLoadingPage ==
    [][lastOp' \in {"saveProject", "autosave"} /\ loadPending
           => pageOf(currentProject', currentPageIndex').canvasData
                  = pageOf(currentProject, currentPageIndex).canvasData]_vars

\* the live graph is the persisted graph of the current page
livePersisted ==
    /\ fabricCanvas # 0
    /\ pageOf(currentProject, currentPageIndex) # Null
    /\ pageOf(currentProject, currentPageIndex).canvasData # Null
    /\ toJSON(canvases[fabricCanvas]).objects
           = pageOf(currentProject, currentPageIndex).canvasData.objects

\* C32: when the last pending loadFromJSON is delivered after an earlier
\* delivery had made the live graph the persisted graph of the current
\* page, the live graph is still the persisted graph of the current page.
C32_LastLoadIsCurrentPage ==
    [][(/\ lastOp = "loadFromJSONDone"
        /\ livePersisted
        /\ lastOp' = "loadFromJSONDone"
        /\ pendingLoads' = <<>>)
           => livePersisted']_vars

\* theme changes against the colors the user gave to texts
NextRecolor ==
    \/ ClickAddText
    \/ TextColorChange
    \/ SelectTheme

SpecRecolor == Init /\ [][NextRecolor]_vars

\* C33: a theme change leaves every existing element's own fields
\* unchanged; a text fill set with updateTextColor is still that color.
C33_ThemeKeepsElements ==
    [][lastOp' = "updateTheme" => liveObjects' = liveObjects]_vars

\* the elements the rebuilt canvas holds or is about to load
rebuiltObjects ==
    {canvases'[fabricCanvas'].objects[i] : i \in 1..Len(canvases'[fabricCanvas'].objects)}
        \cup UNION {{pendingLoads'[k].json.objects[i] :
                         i \in 1..Len(pendingLoads'[k].json.objects)} :
                       k \in {j \in 1..Len(pendingLoads') :
                                  pendingLoads'[j].canvas = fabricCanvas'}}

\* C34: when updateCanvasFormat rebuilds the canvas, every element of the
\* live graph, unsaved edits included, is in the rebuilt graph or in the
\* JSON it is loading.
C34_RebuildKeepsElements ==
    [][lastOp' = "updateCanvasFormat" /\ fabricCanvas' # fabricCanvas
           => \A i \in 1..Len(liveObjects) :
                  \E obj \in rebuiltObjects :
                      obj.type = liveObjects[i].type /\ obj.text = liveObjects[i].text]_vars

\* projects and pages: creating, deleting, loading, selecting, saving and
\* restyling
NextNavigation ==
    \/ ClickNewProject
    \/ ClickDeleteProject
    \/ ClickLoadProject
    \/ ClickAddPage
    \/ ClickDeletePage
    \/ ClickPage
    \/ ClickSave
    \/ ClickFormat
    \/ ClickTheme

SpecNavigation == Init /\ [][NextNavigation]_vars


\* a page without what saveProject writes into it
unsaved(page) == [page EXCEPT !.canvasData = Null, !.thumbnail = Null]

\* a project without what saveProject writes into it
unsavedProject(project) ==
    [project EXCEPT !.updatedAt = 0,
                    !.pages = [i \in 1..Len(project.pages) |->
                                   IF i = currentPageIndex + 1 THEN unsaved(project.pages[i])
                                   ELSE project.pages[i]]]

C36_PageIndexValid ==
    mounted /\ currentProject # Null
        => currentPageIndex >= 0 /\ currentPageIndex < Len(currentProject.pages)

\* the last page of two was the current one and has been deleted
C36_LastPageDeleted ==
    /\ lastOp = "deleteCurrentPage"
    /\ "Page deleted" \in toasts
    /\ Len(currentProject.pages) = 1
    /\ currentPageIndex = 0
    /\ currentProject.pages[1].name = 1

\* C37: while the editor is mounted with a current page, canvasFormat and
\* activeTheme are the format and theme of the current page.
C37_StyleFollowsPage ==
    mounted /\ pageOf(currentProject, currentPageIndex) # Null
        => /\ canvasFormat = pageOf(currentProject, currentPageIndex).format
           /\ activeTheme = pageOf(currentProject, currentPageIndex).theme

\* identifiers: projects and pages created with and without the clock
\* advancing between the events
NextIds ==
    \/ ClickNewProject
    \/ ClickNewProjectSameTick
    \/ ClickAddPage
    \/ ClickAddPageSameTick
    \/ ClickPage
    \/ ClickDeleteProject

SpecIds == Init /\ [][NextIds]_vars

\* no two members of a sequence share an id
uniqueIds(seq) == \A i, j \in 1..Len(seq) : seq[i].id = seq[j].id => i = j

\* C38: no two projects of the list share an id and no two pages of one
\* project share an id.
C38_IdsUnique ==
    /\ uniqueIds(projects)
    /\ \A i \in 1..Len(projects) : uniqueIds(projects[i].pages)

\* recovery from an empty list: deleteProject's render and the effects
\* after it as separate steps; React runs the effects of every committed
\* render
NextRecover ==
    \/ ClickNewProject
    \/ ClickAddPage
    \/ ClickLoadProject
    \/ ClickTheme
    \/ DeleteProjectRender
    \/ RunEffects

SpecRecover == Init /\ [][NextRecover]_vars /\ WF_vars(RunEffects)

\* the list is not empty and the current project is one of it, with a page
recovered ==
    /\ projects # <<>>
    /\ currentProject # Null
    /\ \E i \in 1..Len(projects) : projects[i] = currentProject
    /\ Len(currentProject.pages) >= 1

\* C39: whenever the project list is empty or there is no current project,
\* the editor eventually has a non-empty list and a current project that
\* is a member of it and has at least one page.
C39_EmptyListRecovers ==
    (mounted /\ (projects = <<>> \/ currentProject = Null)) ~> recovered

\* the effects after the deletion of the last project created a new one
C39_RecreatedAfterLastDeleted ==
    /\ lastOp = "effects"
    /\ "New project created!" \in toasts
    /\ Len(projects) = 1
    /\ currentProject = projects[1]
    /\ currentProject.id = now

====
